---------------------------- MODULE Spec2Model ----------------------------
(***************************************************************************)
(* Model of src/shared/validate.js: the pre-deploy validation pipeline of  *)
(* the Scaleway serverless plugin.                                         *)
(*                                                                         *)
(* JavaScript values are tagged records.  Every string is a sequence of    *)
(* one-character strings, so that length, split, concatenation and the     *)
(* cron regular expression are computed character by character.  An       *)
(* object is the ordered sequence of its entries (Object.keys order).      *)
(***************************************************************************)
EXTENDS Naturals, Sequences, FiniteSets

VARIABLES
    pc,               \* position in the promise chain of validate()
    servicePath,      \* this.serverless.config.servicePath
    scwToken,         \* this.provider.scwToken
    scwProject,       \* this.provider.getScwProject()
    runtime,          \* this.runtime, the default runtime
    service,          \* this.serverless.service (provider.env, functions, custom)
    inputService,     \* the service as it was handed to the validator
    fs,               \* absolute paths of the files that exist
    errors,           \* the value passed from one phase to the next
    namespaceErrors,  \* local namespaceErrors of validateNamespace
    functionErrors,   \* local functionErrors of validateApplications
    outcome,          \* settlement of the promise validate() returns
    ran,              \* the phases that have run, in order
    arg,              \* argument of a helper called on its own
    ret               \* completion of that helper

vars == <<pc, servicePath, scwToken, scwProject, runtime, service, inputService,
          fs, errors, namespaceErrors, functionErrors, outcome, ran, arg, ret>>

---------------------------------------------------------------------------
(* JavaScript values *)

Undefined == [t |-> "undefined"]

Null == [t |-> "null"]

Str(s) == [t |-> "string", s |-> s]

Num(n) == [t |-> "number", n |-> n]

Arr(items) == [t |-> "array", items |-> items]

Obj(entries) == [t |-> "object", entries |-> entries]

Entry(k, v) == [k |-> k, v |-> v]

(* Completions of a call: a normal return or a thrown Error. *)
Return(v) == [c |-> "return", v |-> v]

Throw(e) == [c |-> "throw", e |-> e]

(* Not called yet, not settled yet. *)
Pending == [c |-> "pending"]

(* An error message: the fixed text of its template and the interpolated   *)
(* strings, in order.                                                      *)
Msg(id, args) == [id |-> id, args |-> args]

Error(name, message) == [t |-> "error", name |-> name, message |-> message]

Digits == <<"0", "1", "2", "3", "4", "5", "6", "7", "8", "9">>

S_undefined == <<"u", "n", "d", "e", "f", "i", "n", "e", "d">>

S_null == <<"n", "u", "l", "l">>

S_object == <<"[", "o", "b", "j", "e", "c", "t", " ", "O", "b", "j", "e", "c", "t", "]">>

S_schedule == <<"s", "c", "h", "e", "d", "u", "l", "e">>

S_rate == <<"r", "a", "t", "e">>

S_runtime == <<"r", "u", "n", "t", "i", "m", "e">>

S_handler == <<"h", "a", "n", "d", "l", "e", "r">>

S_events == <<"e", "v", "e", "n", "t", "s">>

S_containers == <<"c", "o", "n", "t", "a", "i", "n", "e", "r", "s">>

S_golang == <<"g", "o", "l", "a", "n", "g">>

(* Decimal text of a natural number, as String(n) gives it. *)
RECURSIVE NatToString(_)
NatToString(n) ==
    IF n < 10 THEN <<Digits[n + 1]>>
    ELSE NatToString(n \div 10) \o <<Digits[(n % 10) + 1]>>

(* `${v}`: the string a template literal interpolates. *)
ToString(v) ==
    CASE v.t = "string" -> v.s
      [] v.t = "number" -> NatToString(v.n)
      [] v.t = "undefined" -> S_undefined
      [] v.t = "null" -> S_null
      [] OTHER -> S_object

(* typeof v *)
TypeOf(v) ==
    CASE v.t = "undefined" -> "undefined"
      [] v.t = "string" -> "string"
      [] v.t = "number" -> "number"
      [] OTHER -> "object"

(* !!v *)
Truthy(v) ==
    CASE v.t = "undefined" -> FALSE
      [] v.t = "null" -> FALSE
      [] v.t = "string" -> v.s # <<>>
      [] v.t = "number" -> v.n # 0
      [] OTHER -> TRUE

(* Object.keys(v): throws on undefined and null; the indices of a string   *)
(* or an array; nothing for a number.                                      *)
ObjectKeys(v) ==
    CASE v.t = "undefined" -> Throw(Error("TypeError", Msg("Cannot convert undefined or null to object", <<>>)))
      [] v.t = "null" -> Throw(Error("TypeError", Msg("Cannot convert undefined or null to object", <<>>)))
      [] v.t = "string" -> Return([i \in 1..Len(v.s) |-> NatToString(i - 1)])
      [] v.t = "array" -> Return([i \in 1..Len(v.items) |-> NatToString(i - 1)])
      [] v.t = "object" -> Return([i \in 1..Len(v.entries) |-> v.entries[i].k])
      [] OTHER -> Return(<<>>)

(* v[key] for a value that is not undefined or null. *)
Get(v, key) ==
    CASE v.t = "object" ->
            IF \E i \in 1..Len(v.entries) : v.entries[i].k = key
            THEN v.entries[CHOOSE i \in 1..Len(v.entries) : v.entries[i].k = key].v
            ELSE Undefined
      [] v.t = "array" ->
            IF \E i \in 1..Len(v.items) : NatToString(i - 1) = key
            THEN v.items[CHOOSE i \in 1..Len(v.items) : NatToString(i - 1) = key]
            ELSE Undefined
      [] v.t = "string" ->
            IF \E i \in 1..Len(v.s) : NatToString(i - 1) = key
            THEN Str(<<v.s[CHOOSE i \in 1..Len(v.s) : NatToString(i - 1) = key]>>)
            ELSE Undefined
      [] OTHER -> Undefined

(* obj[key] = value on an object: the entry is replaced in place, or       *)
(* appended when the key is new.                                           *)
Set(obj, key, value) ==
    IF \E i \in 1..Len(obj.entries) : obj.entries[i].k = key
    THEN Obj([i \in 1..Len(obj.entries) |->
                 IF obj.entries[i].k = key THEN Entry(key, value) ELSE obj.entries[i]])
    ELSE Obj(Append(obj.entries, Entry(key, value)))

(* s.split(sep) for a one-character separator. *)
RECURSIVE Split(_, _)
Split(s, sep) ==
    IF \A i \in 1..Len(s) : s[i] # sep THEN <<s>>
    ELSE LET i == CHOOSE j \in 1..Len(s) : s[j] = sep /\ \A k \in 1..(j - 1) : s[k] # sep
         IN  <<SubSeq(s, 1, i - 1)>> \o Split(SubSeq(s, i + 1, Len(s)), sep)

---------------------------------------------------------------------------
(* Regular expressions: literal, character class, alternation and          *)
(* concatenation.  Ends(re, s, i) is the set of positions at which a match *)
(* of re starting at position i of s can end.                              *)

Lit(ch) == [op |-> "lit", cs |-> {ch}]

Class(lo, hi) == [op |-> "class", cs |-> {Digits[d + 1] : d \in lo..hi}]

Alt(rs) == [op |-> "alt", rs |-> rs]

Cat(rs) == [op |-> "cat", rs |-> rs]

RECURSIVE Ends(_, _, _)
RECURSIVE CatEnds(_, _, _, _)
Ends(re, s, i) ==
    CASE re.op = "alt" -> UNION {Ends(re.rs[k], s, i) : k \in DOMAIN re.rs}
      [] re.op = "cat" -> CatEnds(re.rs, 1, s, {i})
      [] OTHER -> IF i <= Len(s) /\ s[i] \in re.cs THEN {i + 1} ELSE {}

CatEnds(rs, k, s, starts) ==
    IF k > Len(rs) \/ starts = {} THEN starts
    ELSE CatEnds(rs, k + 1, s, UNION {Ends(rs[k], s, i) : i \in starts})

(* /^re$/.test(s) *)
RegexTest(re, s) == (Len(s) + 1) \in Ends(re, s, 1)

(* One field of cronScheduleRegex: (\*|num|\*\/num) *)
CronField(num) == Alt(<<Lit("*"), num, Cat(<<Lit("*"), Lit("/"), num>>)>>)

(* ([0-9]|1[0-9]|2[0-9]|3[0-9]|4[0-9]|5[0-9]) *)
MinuteNumber ==
    Alt(<<Class(0, 9), Cat(<<Lit("1"), Class(0, 9)>>), Cat(<<Lit("2"), Class(0, 9)>>),
          Cat(<<Lit("3"), Class(0, 9)>>), Cat(<<Lit("4"), Class(0, 9)>>),
          Cat(<<Lit("5"), Class(0, 9)>>)>>)

(* A slip in the hour range: 2[0-9] for 2[0-3]. *)
HourNumberUpTo29 ==
    Alt(<<Class(0, 9), Cat(<<Lit("1"), Class(0, 9)>>), Cat(<<Lit("2"), Class(0, 9)>>)>>)

(* ([0-9]|1[0-9]|2[0-3]) *)
HourNumber ==
    Alt(<<Class(0, 9), Cat(<<Lit("1"), Class(0, 9)>>), Cat(<<Lit("2"), Class(0, 3)>>)>>)

(* ([1-9]|1[0-9]|2[0-9]|3[0-1]) *)
DayOfMonthNumber ==
    Alt(<<Class(1, 9), Cat(<<Lit("1"), Class(0, 9)>>), Cat(<<Lit("2"), Class(0, 9)>>),
          Cat(<<Lit("3"), Class(0, 1)>>)>>)

(* ([1-9]|1[0-2]) *)
MonthNumber == Alt(<<Class(1, 9), Cat(<<Lit("1"), Class(0, 2)>>)>>)

(* ([0-6]) *)
DayOfWeekNumber == Class(0, 6)

cronScheduleRegex ==
    Cat(<<CronField(MinuteNumber), Lit(" "), CronField(HourNumber), Lit(" "),
          CronField(DayOfMonthNumber), Lit(" "), CronField(MonthNumber), Lit(" "),
          CronField(DayOfWeekNumber)>>)

ScheduleInvalid(rate) ==
    Msg("Trigger Schedule is invalid: ${trigger.rate}, schedule should be formatted like a UNIX-Compliant Cronjob, for example: '1 * * * *'",
        <<ToString(rate)>>)

(* !trigger.rate || !cronScheduleRegex.test(trigger.rate) *)
RateRejected(rate) == ~Truthy(rate) \/ ~RegexTest(cronScheduleRegex, ToString(rate))

(* Lines 22-24 once trigger.rate has been read. *)
ScheduleRate(rate) ==
    IF RateRejected(rate) THEN Throw(Error("Error", ScheduleInvalid(rate)))
    ELSE Return(Undefined)

(* TRIGGERS_VALIDATION.schedule(trigger): reading .rate of undefined or    *)
(* null throws a TypeError before the test.                                *)
Schedule(trigger) ==
    IF trigger.t \in {"undefined", "null"}
    THEN Throw(Error("TypeError", Msg("Cannot read property 'rate' of ${trigger}", <<ToString(trigger)>>)))
    ELSE ScheduleRate(Get(trigger, S_rate))

(* Object.keys(TRIGGERS_VALIDATION) *)
AuthorizedTriggers == <<S_schedule>>

(* list.join(sep) *)
RECURSIVE Join(_, _)
Join(list, sep) ==
    IF list = <<>> THEN <<>>
    ELSE IF Len(list) = 1 THEN list[1]
    ELSE list[1] \o sep \o Join(Tail(list), sep)

(* list.includes(x) *)
Includes(list, x) == \E i \in 1..Len(list) : list[i] = x

---------------------------------------------------------------------------
(* validateTriggers, lines 165-192 *)

TriggerInvalid ==
    Msg("Trigger is invalid, it should contain at least one event type configuration (example: schedule).", <<>>)

TriggerNotSupported(triggerName) ==
    Msg("Trigger Type ${triggerName} is not currently supported by Scaleway's Serverless platform, supported types are the following: ${authorizedTriggers.join(', ')}",
        <<triggerName, Join(AuthorizedTriggers, <<",", " ">>)>>)

(* Lines 184-190: what the kind's validator throws is caught and its      *)
(* message appended.                                                       *)
CatchValidation(accumulator, r) ==
    IF r.c = "throw" THEN Return(Append(accumulator, r.e.message)) ELSE Return(accumulator)

(* The reducer of validateTriggers once Object.keys(trigger) has completed *)
(* as keys.  Object.keys is outside the try block: what it throws leaves   *)
(* the reducer.  TRIGGERS_VALIDATION has the one validator, schedule.      *)
TriggerStep(accumulator, trigger, keys) ==
    IF keys.c = "throw" THEN keys
    ELSE IF Len(keys.v) # 1 THEN Return(Append(accumulator, TriggerInvalid))
    ELSE IF ~Includes(AuthorizedTriggers, keys.v[1])
         THEN Return(Append(accumulator, TriggerNotSupported(keys.v[1])))
    ELSE CatchValidation(accumulator, Schedule(Get(trigger, keys.v[1])))

(* triggers.reduce(step, []) from item i on; ReduceNext continues with the *)
(* completion r of the step on item i.                                     *)
RECURSIVE ReduceTriggers(_, _, _)
RECURSIVE ReduceNext(_, _, _)
ReduceTriggers(items, i, accumulator) ==
    IF i > Len(items) THEN Return(accumulator)
    ELSE ReduceNext(items, i, TriggerStep(accumulator, items[i], ObjectKeys(items[i])))

ReduceNext(items, i, r) ==
    IF r.c = "throw" THEN r ELSE ReduceTriggers(items, i + 1, r.v)

(* Only an array has reduce. *)
validateTriggers(triggers) ==
    IF triggers.t # "array"
    THEN Throw(Error("TypeError", Msg("triggers.reduce is not a function", <<>>)))
    ELSE ReduceTriggers(triggers.items, 1, <<>>)

---------------------------------------------------------------------------
(* validateEnv, lines 194-212 *)

VariableInvalid(variableName) ==
    Msg("Variable ${variableName}: variable is invalid, environment variables may only be strings",
        <<variableName>>)

EnvNotAMap ==
    Msg("Environment variables should be a map of strings under the form: key - value", <<>>)

(* variableNames.forEach(...) from name i on. *)
RECURSIVE EnvLoop(_, _, _, _)
EnvLoop(variables, variableNames, i, errs) ==
    IF i > Len(variableNames) THEN errs
    ELSE EnvLoop(variables, variableNames, i + 1,
                 IF TypeOf(Get(variables, variableNames[i])) # "string"
                 THEN Append(errs, VariableInvalid(variableNames[i]))
                 ELSE errs)

validateEnv(variables) ==
    IF ~Truthy(variables) THEN Return(<<>>)
    ELSE IF TypeOf(variables) # "object" THEN Throw(Error("Error", EnvNotAMap))
    ELSE Return(EnvLoop(variables, ObjectKeys(variables).v, 1, <<>>))

---------------------------------------------------------------------------
(* validateApplications, lines 74-163 *)

S_ts == <<"t", "s">>

S_js == <<"j", "s">>

S_py == <<"p", "y">>

S_go == <<"g", "o">>

S_node8 == <<"n", "o", "d", "e", "8">>

S_node10 == <<"n", "o", "d", "e", "1", "0">>

S_node14 == <<"n", "o", "d", "e", "1", "4">>

S_python == <<"p", "y", "t", "h", "o", "n">>

S_python3 == <<"p", "y", "t", "h", "o", "n", "3">>

RUNTIMES_EXTENSIONS ==
    Obj(<<Entry(S_node8, Arr(<<Str(S_ts), Str(S_js)>>)),
          Entry(S_node10, Arr(<<Str(S_ts), Str(S_js)>>)),
          Entry(S_node14, Arr(<<Str(S_ts), Str(S_js)>>)),
          Entry(S_python, Arr(<<Str(S_py)>>)),
          Entry(S_python3, Arr(<<Str(S_py)>>)),
          Entry(S_golang, Arr(<<Str(S_go)>>))>>)

(* The message of lines 90 and 105: both interpolate this.runtime. *)
RuntimeNotSupported(rt) ==
    Msg("Runtime ${this.runtime} is not supported. Function runtime must be one of the following: ${availableRuntimesMessage}",
        <<rt, Join(ObjectKeys(RUNTIMES_EXTENSIONS).v, <<",", " ">>)>>)

HandlerNotExist(functionName, handler) ==
    Msg("Handler file defined for function ${functionName} does not exist (${func.handler}).",
        <<functionName, ToString(handler)>>)

MustDefineOne ==
    Msg("You must define at least one function or container to deploy under the functions or custom key.", <<>>)

(* The working directory of the process. *)
Cwd == <<"/", "w">>

(* path.resolve('./', p): an absolute p stands, a relative one is put      *)
(* under the working directory.                                            *)
PathResolve(p) == IF p # <<>> /\ p[1] = "/" THEN p ELSE Cwd \o <<"/">> \o p

(* fs.existsSync *)
ExistsSync(fsys, p) == p \in fsys

(* The try block of lines 110-131 throws: no split on a handler that is    *)
(* not a string, a segment count other than two, no length on an undefined *)
(* extension list, or no candidate file.  `extensions` is the list of the  *)
(* DEFAULT runtime: the const of line 102 is scoped to its own block.      *)
HandlerCheckThrows(func, extensions, fsys) ==
    LET handler == Get(func, S_handler)
    IN  \/ handler.t # "string"
        \/ Len(Split(handler.s, ".")) # 2
        \/ extensions.t # "array"
        \/ ~\E i \in 1..Len(extensions.items) :
               ExistsSync(fsys, PathResolve(Split(handler.s, ".")[1] \o <<".">> \o extensions.items[i].s))

(* A slip in line 96: the default runtime is not consulted. *)
IsGolangOverrideOnly(func, rt) == Get(func, S_runtime) = Str(S_golang)

(* func.runtime === 'golang' || (!func.runtime && this.runtime === 'golang') *)
IsGolang(func, rt) ==
    \/ Get(func, S_runtime) = Str(S_golang)
    \/ ~Truthy(Get(func, S_runtime)) /\ rt = S_golang

(* A slip in lines 138 and 153: the events are always reset. *)
EventsAlwaysReset(events) == Arr(<<>>)

(* x.events || [] *)
EventsOrDefault(events) == IF Truthy(events) THEN events ELSE Arr(<<>>)

(* The state the loops thread: the mapping being mutated, the errors       *)
(* pushed so far and whether a throw has left the loop.                    *)
LoopState(mapping, errs, completion) ==
    [mapping |-> mapping, functionErrors |-> errs, completion |-> completion]

(* Lines 101-107: an unknown override pushes the message of the default.   *)
OwnRuntimeErrors(own, errs, rt) ==
    IF Truthy(own) /\ ~Truthy(Get(RUNTIMES_EXTENSIONS, ToString(own)))
    THEN Append(errs, RuntimeNotSupported(rt))
    ELSE errs

(* Lines 110-135: whatever the try block throws is caught as one message.  *)
HandlerErrors(functionName, func, errs, extensions, fsys) ==
    IF HandlerCheckThrows(func, extensions, fsys)
    THEN Append(errs, HandlerNotExist(functionName, Get(func, S_handler)))
    ELSE errs

(* Lines 139 and 154: the errors of validateTriggers are appended; what it *)
(* throws leaves the loop.                                                 *)
TriggersOutcome(mapping, errs, t) ==
    IF t.c = "throw" THEN LoopState(mapping, errs, t)
    ELSE LoopState(mapping, errs \o t.v, Return(Undefined))

(* Lines 138-139 and 153-154: x.events = events, then validateTriggers. *)
EventsStep(mapping, name, x, errs, events) ==
    TriggersOutcome(Set(mapping, name, Set(x, S_events, events)), errs, validateTriggers(events))

(* The body of functionNames.forEach, lines 93-140, for func. *)
FunctionChecks(functions, functionName, func, errs, extensions, rt, fsys) ==
    IF IsGolang(func, rt) THEN LoopState(functions, errs, Return(Undefined))
    ELSE EventsStep(functions, functionName, func,
                    HandlerErrors(functionName, func,
                                  OwnRuntimeErrors(Get(func, S_runtime), errs, rt),
                                  extensions, fsys),
                    EventsOrDefault(Get(func, S_events)))

FunctionStep(functions, functionName, errs, extensions, rt, fsys) ==
    FunctionChecks(functions, functionName, Get(functions, functionName), errs,
                   extensions, rt, fsys)

(* functionNames.forEach from name i on; FunctionsNext continues with the  *)
(* state st after name i.                                                  *)
RECURSIVE FunctionsLoop(_, _, _, _, _, _, _)
RECURSIVE FunctionsNext(_, _, _, _, _, _)
FunctionsLoop(functions, functionNames, i, errs, extensions, rt, fsys) ==
    IF i > Len(functionNames) THEN LoopState(functions, errs, Return(Undefined))
    ELSE FunctionsNext(functionNames, i, extensions, rt, fsys,
                       FunctionStep(functions, functionNames[i], errs, extensions, rt, fsys))

FunctionsNext(functionNames, i, extensions, rt, fsys, st) ==
    IF st.completion.c = "throw" THEN st
    ELSE FunctionsLoop(st.mapping, functionNames, i + 1, st.functionErrors,
                       extensions, rt, fsys)

(* The body of containerNames.forEach, lines 151-155, for container. *)
ContainerChecks(containers, containerName, container, errs) ==
    EventsStep(containers, containerName, container, errs,
               EventsOrDefault(Get(container, S_events)))

ContainerStep(containers, containerName, errs) ==
    ContainerChecks(containers, containerName, Get(containers, containerName), errs)

RECURSIVE ContainersLoop(_, _, _, _)
RECURSIVE ContainersNext(_, _, _)
ContainersLoop(containers, containerNames, i, errs) ==
    IF i > Len(containerNames) THEN LoopState(containers, errs, Return(Undefined))
    ELSE ContainersNext(containerNames, i, ContainerStep(containers, containerNames[i], errs))

ContainersNext(containerNames, i, st) ==
    IF st.completion.c = "throw" THEN st
    ELSE ContainersLoop(st.mapping, containerNames, i + 1, st.functionErrors)

(* x && Object.keys(x).length !== 0, then Object.keys(x); else [] *)
NamesOf(x) == IF Truthy(x) /\ Len(ObjectKeys(x).v) # 0 THEN ObjectKeys(x).v ELSE <<>>

(* A slip in line 158: the containers are not counted. *)
NothingToDeployIgnoringContainers(functionNames, containerNames) == Len(functionNames) = 0

(* !functionNames.length && !containerNames.length *)
NothingToDeploy(functionNames, containerNames) ==
    Len(functionNames) = 0 /\ Len(containerNames) = 0

(* Array.isArray(errors) ? errors : [] *)
CurrentErrors(errs) == IF errs.t = "array" THEN errs.items ELSE <<>>

(* Lines 87-91: the default runtime is checked when there are functions. *)
DefaultRuntimeErrors(functionNames, extensions, rt) ==
    IF functionNames # <<>> /\ ~Truthy(extensions) THEN <<RuntimeNotSupported(rt)>> ELSE <<>>

(* Lines 80 and 143-146: the containers the second loop reads. *)
ContainersOf(svc) == IF Truthy(svc.custom) THEN Get(svc.custom, S_containers) ELSE Arr(<<>>)

(* What validateApplications leaves: the service as mutated, the local     *)
(* functionErrors and the completion (the resolved array, or the error     *)
(* thrown out of a loop).                                                  *)
Applied(svc, errs, completion) ==
    [service |-> svc, functionErrors |-> errs, completion |-> completion]

WithContainers(svc, containerNames, mapping) ==
    IF containerNames = <<>> THEN svc
    ELSE [svc EXCEPT !.custom = Set(svc.custom, S_containers, mapping)]

(* Lines 158-162, with functionErrors as the loops left it. *)
ApplicationsResult(svc, currentErrors, errs, nothing) ==
    IF nothing
    THEN Applied(svc, Append(errs, MustDefineOne),
                 Return(Arr(currentErrors \o Append(errs, MustDefineOne))))
    ELSE Applied(svc, errs, Return(Arr(currentErrors \o errs)))

(* Lines 147-162, with cl the state the containers loop ended in. *)
AfterContainers(svc, currentErrors, functionNames, containerNames, cl) ==
    IF cl.completion.c = "throw"
    THEN Applied(WithContainers(svc, containerNames, cl.mapping), cl.functionErrors, cl.completion)
    ELSE ApplicationsResult(WithContainers(svc, containerNames, cl.mapping), currentErrors,
                            cl.functionErrors, NothingToDeploy(functionNames, containerNames))

ContainersPart(svc, currentErrors, functionNames, containers, containerNames, errs) ==
    AfterContainers(svc, currentErrors, functionNames, containerNames,
                    ContainersLoop(containers, containerNames, 1, errs))

(* Lines 143-162, with fl the state the functions loop ended in. *)
AfterFunctions(svc, currentErrors, functionNames, fl) ==
    IF fl.completion.c = "throw"
    THEN Applied([svc EXCEPT !.functions = fl.mapping], fl.functionErrors, fl.completion)
    ELSE ContainersPart([svc EXCEPT !.functions = fl.mapping], currentErrors, functionNames,
                        ContainersOf(svc), NamesOf(ContainersOf(svc)), fl.functionErrors)

FunctionsPart(svc, currentErrors, rt, fsys, functionNames, extensions) ==
    AfterFunctions(svc, currentErrors, functionNames,
                   FunctionsLoop(svc.functions, functionNames, 1,
                                 DefaultRuntimeErrors(functionNames, extensions, rt),
                                 extensions, rt, fsys))

(* validateApplications(errors) on service svc. *)
validateApplications(svc, errs, rt, fsys) ==
    FunctionsPart(svc, CurrentErrors(errs), rt, fsys, NamesOf(svc.functions),
                  Get(RUNTIMES_EXTENSIONS, rt))

---------------------------------------------------------------------------
(* validate(), lines 29-72: the promise chain, one action per phase *)

CredentialLength == 36

Resolved == [status |-> "resolved"]

Rejected(reason) == [status |-> "rejected", reason |-> reason]

NotInServiceDirectory ==
    Msg("This command can only be run inside a service directory", <<>>)

InvalidCredentials ==
    Msg("Either \"scwToken\" or \"scwProject\" is invalid. Credentials to deploy on your Scaleway Account are required, please read the documentation.", <<>>)

(* A slip in line 47: a lower bound for the exact length. *)
CredentialsInvalidTooShortOnly(token, project) ==
    Len(token) < CredentialLength \/ Len(project) < CredentialLength

(* scwToken.length !== 36 || getScwProject().length !== 36 *)
CredentialsInvalid(token, project) ==
    Len(token) # CredentialLength \/ Len(project) # CredentialLength

validateServicePath ==
    /\ pc = "validateServicePath"
    /\ ran' = Append(ran, "validateServicePath")
    /\ IF ~Truthy(servicePath)
       THEN /\ outcome' = Rejected(Error("Error", NotInServiceDirectory))
            /\ pc' = "done"
       ELSE /\ pc' = "validateCredentials"
            /\ UNCHANGED outcome
    /\ UNCHANGED <<servicePath, scwToken, scwProject, runtime, service, inputService, fs,
                   errors, namespaceErrors, functionErrors, arg, ret>>

validateCredentials ==
    /\ pc = "validateCredentials"
    /\ ran' = Append(ran, "validateCredentials")
    /\ IF CredentialsInvalid(scwToken, scwProject)
       THEN /\ outcome' = Rejected(Error("Error", InvalidCredentials))
            /\ pc' = "done"
       ELSE /\ pc' = "validateNamespace"
            /\ UNCHANGED outcome
    /\ UNCHANGED <<servicePath, scwToken, scwProject, runtime, service, inputService, fs,
                   errors, namespaceErrors, functionErrors, arg, ret>>

validateNamespace ==
    /\ pc = "validateNamespace"
    /\ ran' = Append(ran, "validateNamespace")
    /\ \E r \in {validateEnv(service.provider.env)} :
           IF r.c = "throw"
           THEN /\ outcome' = Rejected(r.e)
                /\ pc' = "done"
                /\ UNCHANGED <<errors, namespaceErrors>>
           ELSE /\ namespaceErrors' = r.v
                /\ errors' = Arr(CurrentErrors(errors) \o r.v)
                /\ pc' = "validateApplications"
                /\ UNCHANGED outcome
    /\ UNCHANGED <<servicePath, scwToken, scwProject, runtime, service, inputService, fs,
                   functionErrors, arg, ret>>

validateApplicationsPhase ==
    /\ pc = "validateApplications"
    /\ ran' = Append(ran, "validateApplications")
    /\ \E r \in {validateApplications(service, errors, runtime, fs)} :
           /\ service' = r.service
           /\ functionErrors' = r.functionErrors
           /\ IF r.completion.c = "throw"
              THEN /\ outcome' = Rejected(r.completion.e)
                   /\ pc' = "done"
                   /\ UNCHANGED errors
              ELSE /\ errors' = r.completion.v
                   /\ pc' = "checkErrors"
                   /\ UNCHANGED outcome
    /\ UNCHANGED <<servicePath, scwToken, scwProject, runtime, inputService, fs,
                   namespaceErrors, arg, ret>>

checkErrors ==
    /\ pc = "checkErrors"
    /\ ran' = Append(ran, "checkErrors")
    /\ outcome' = IF ~Truthy(errors) \/ Len(errors.items) = 0 THEN Resolved ELSE Rejected(errors)
    /\ pc' = "done"
    /\ UNCHANGED <<servicePath, scwToken, scwProject, runtime, service, inputService, fs,
                   errors, namespaceErrors, functionErrors, arg, ret>>

---------------------------------------------------------------------------
(* Configurations *)

S_cwd_a_ts == <<"/", "w", "/", "a", ".", "t", "s">>

S_cwd_a_js == <<"/", "w", "/", "a", ".", "j", "s">>

S_cwd_a_py == <<"/", "w", "/", "a", ".", "p", "y">>

S_ruby == <<"r", "u", "b", "y">>

TwoSegments == <<"a", ".", "h">>

ThreeSegments == <<"a", ".", "b", ".", "h">>

Rate60 == <<"6", "0", " ", "*", " ", "*", " ", "*", " ", "*">>

BadSchedule == Obj(<<Entry(S_schedule, Obj(<<Entry(S_rate, Str(Rate60))>>))>>)

(* An entry for every field that is present. *)
Optional(k, v) == IF v = Undefined THEN <<>> ELSE <<Entry(k, v)>>

FunctionSpec(handler, own, events) ==
    Obj(Optional(S_handler, handler) \o Optional(S_runtime, own) \o Optional(S_events, events))

ContainerSpec(events) == Obj(Optional(S_events, events))

(* events: absent, null, sequences, and a mapping where a sequence belongs *)
EventsPool == { Undefined, Null, Arr(<<>>), Arr(<<BadSchedule>>), Arr(<<Null>>), BadSchedule }

FunctionPool ==
    { FunctionSpec(Str(TwoSegments), own, Undefined) :
        own \in {Undefined, Str(S_python3), Str(S_golang), Str(S_ruby)} }
      \cup { FunctionSpec(Str(ThreeSegments), Undefined, Undefined) }
      \cup { FunctionSpec(Undefined, Undefined, Undefined) }
      \cup { FunctionSpec(Str(TwoSegments), Undefined, e) : e \in EventsPool }
      \cup { FunctionSpec(Undefined, Str(S_golang), BadSchedule) }

ContainerPool == { ContainerSpec(e) : e \in {Undefined, Arr(<<BadSchedule>>), BadSchedule} }

(* The i-th function is f<i>, the i-th container c<i>. *)
FunctionName(i) == <<"f">> \o NatToString(i)

ContainerName(i) == <<"c">> \o NatToString(i)

MaxFunctions == 2

MaxContainers == 1

FunctionMappings ==
    { Obj([i \in 1..n |-> Entry(FunctionName(i), f[i])]) :
        <<n, f>> \in UNION { {n} \X [1..n -> FunctionPool] : n \in 0..MaxFunctions } }

ContainerMappings ==
    { Obj([i \in 1..n |-> Entry(ContainerName(i), c[i])]) :
        <<n, c>> \in UNION { {n} \X [1..n -> ContainerPool] : n \in 0..MaxContainers } }

CustomPool ==
    { Undefined, Obj(<<>>) } \cup { Obj(<<Entry(S_containers, m)>>) : m \in ContainerMappings }

Service(env, functions, custom) ==
    [provider |-> [env |-> env], functions |-> functions, custom |-> custom]

Files == { S_cwd_a_js, S_cwd_a_py }

DefaultRuntimes == { S_node14, S_python3, S_golang, S_ruby }

Rep(ch, n) == [i \in 1..n |-> ch]

(* validateApplications called on its own: every function mapping without *)
(* containers under every set of files, and every custom section with at   *)
(* most one function and a.ts on disk.                                     *)
ApplicationInputs ==
    { [service |-> Service(Undefined, fm, Undefined), errors |-> Undefined, fs |-> files] :
        fm \in FunctionMappings \cup {Undefined}, files \in SUBSET Files }
      \cup
    { [service |-> Service(Undefined, fm, cu), errors |-> e, fs |-> {S_cwd_a_ts}] :
        fm \in { m \in FunctionMappings : Len(m.entries) <= 1 } \cup {Undefined},
        cu \in CustomPool,
        e \in { Undefined, Arr(<<VariableInvalid(<<"K">>)>>) } }

InitApplications ==
    /\ pc = "validateApplications"
    /\ servicePath = Str(Cwd)
    /\ scwToken = Rep("a", CredentialLength)
    /\ scwProject = Rep("b", CredentialLength)
    /\ runtime \in DefaultRuntimes
    /\ \E in \in ApplicationInputs :
          /\ service = in.service
          /\ inputService = in.service
          /\ errors = in.errors
          /\ arg = in.errors
          /\ fs = in.fs
    /\ namespaceErrors = <<>>
    /\ functionErrors = <<>>
    /\ outcome = Pending
    /\ ran = <<>>
    /\ ret = Pending

SpecApplications == InitApplications /\ [][validateApplicationsPhase]_vars

(* validate(): the preconditions vary widely, the applications little. *)
PipelineFunctions ==
    { Undefined,
      Obj(<<Entry(FunctionName(1), FunctionSpec(Str(TwoSegments), Undefined, Undefined))>>),
      Obj(<<Entry(FunctionName(1), FunctionSpec(Str(ThreeSegments), Undefined, Arr(<<BadSchedule>>)))>>),
      Obj(<<Entry(FunctionName(1), FunctionSpec(Str(TwoSegments), Undefined, Undefined)),
            Entry(FunctionName(2), FunctionSpec(Str(TwoSegments), Undefined, BadSchedule))>>) }

PipelineCustom ==
    { Undefined, Obj(<<Entry(S_containers, Obj(<<Entry(ContainerName(1), ContainerSpec(Undefined))>>))>>) }

PipelineEnv ==
    { Undefined,
      Obj(<<Entry(<<"K">>, Str(<<"v">>))>>),
      Obj(<<Entry(<<"K">>, Str(<<"v">>)), Entry(<<"C">>, Num(5)), Entry(<<"D">>, Null)>>),
      Str(<<"x">>),
      Arr(<<Num(5)>>) }

Init ==
    /\ pc = "validateServicePath"
    /\ servicePath \in { Str(Cwd), Undefined }
    /\ scwToken \in { Rep("a", n) : n \in {0, CredentialLength - 1, CredentialLength, CredentialLength + 1} }
                      \cup { Rep("z", CredentialLength) }
    /\ scwProject \in { Rep("b", n) : n \in {CredentialLength - 1, CredentialLength, CredentialLength + 1} }
    /\ runtime \in { S_node14, S_golang }
    /\ service \in { Service(env, fm, cu) :
                       env \in PipelineEnv, fm \in PipelineFunctions, cu \in PipelineCustom }
    /\ inputService = service
    /\ fs \in { {}, {S_cwd_a_js} }
    /\ errors = Undefined
    /\ namespaceErrors = <<>>
    /\ functionErrors = <<>>
    /\ outcome = Pending
    /\ ran = <<>>
    /\ arg = Undefined
    /\ ret = Pending

Next ==
    \/ validateServicePath
    \/ validateCredentials
    \/ validateNamespace
    \/ validateApplicationsPhase
    \/ checkErrors

Spec == Init /\ [][Next]_vars

---------------------------------------------------------------------------
(* Helpers called on their own: the argument is drawn in Init and one      *)
(* action applies the helper to it.                                        *)


NoPipeline ==
    /\ servicePath = Undefined
    /\ scwToken = <<>>
    /\ scwProject = <<>>
    /\ runtime = <<>>
    /\ service = Undefined
    /\ inputService = Undefined
    /\ fs = {}
    /\ errors = Undefined
    /\ namespaceErrors = <<>>
    /\ functionErrors = <<>>
    /\ outcome = Pending
    /\ ran = <<>>

pipelineVars == <<servicePath, scwToken, scwProject, runtime, service, inputService,
                  fs, errors, namespaceErrors, functionErrors, outcome, ran>>

(* Rate strings: fields joined by single spaces, all `*` but at most       *)
(* MaxOddFields of them, which are drawn from FieldPool.                   *)
MaxOddFields == 2

Star == <<"*">>

(* Fields wrong or right in every position: zero (below the range of      *)
(* day-of-month and month), a leading zero, steps, and malformed fields.   *)
CommonFields ==
    { <<"0">>, <<"5">>, <<"0", "5">>, <<"*", "/", "5">>, <<"*", "/", "0">>,
      <<"*", "/">>, <<"*", "*">>, <<>>, <<"a">> }

(* The last number of each field's range, and the first one past it. *)
FieldEdges ==
    << {<<"5", "9">>, <<"6", "0">>}, {<<"2", "3">>, <<"2", "4">>}, {<<"3", "1">>, <<"3", "2">>},
       {<<"1", "2">>, <<"1", "3">>}, {<<"6">>, <<"7">>} >>

(* The fields tried in position i: the common ones, and the edges of the   *)
(* position's range as a number and as a step.                             *)
FieldPool(i) ==
    CommonFields
      \cup FieldEdges[IF i > Len(FieldEdges) THEN Len(FieldEdges) ELSE i]
      \cup { <<"*", "/">> \o e : e \in FieldEdges[IF i > Len(FieldEdges) THEN Len(FieldEdges) ELSE i] }

AllFields == UNION { FieldPool(i) : i \in 1..Len(FieldEdges) }

FieldLists(n, k) ==
    UNION { { [i \in 1..n |-> IF i \in S THEN a[i] ELSE Star] :
                a \in { f \in [S -> AllFields] : \A i \in S : f[i] \in FieldPool(i) } } :
            S \in {T \in SUBSET (1..n) : Cardinality(T) <= k} }

ExampleRates ==
    { <<"1", " ", "*", " ", "*", " ", "*", " ", "*">>,
      <<"*", "/", "5", " ", "0", " ", "1", " ", "1", " ", "0">>,
      <<"5", "9", " ", "2", "3", " ", "3", "1", " ", "1", "2", " ", "6">>,
      <<"*", " ", "*", " ", "*", " ", "*">>,
      <<"*", " ", "*", " ", "*", " ", "*", " ", "*", " ", "*">>,
      <<"*", " ", " ", "*", " ", "*", " ", "*", " ", "*">>,
      <<" ", "*", " ", "*", " ", "*", " ", "*", " ", "*">>,
      <<"*", " ", "*", " ", "*", " ", "*", " ", "*", " ">>,
      <<"*", "*", "*", "*", "*">> }

Rates ==
    ExampleRates
      \cup { Join(f, <<" ">>) : f \in FieldLists(5, MaxOddFields) }
      \cup { Join(f, <<" ">>) : f \in FieldLists(4, 1) \cup FieldLists(6, 1) }

SchedulePayloads ==
    { Undefined, Null, Obj(<<>>), Obj(<<Entry(S_rate, Num(0))>>), Obj(<<Entry(S_rate, Num(5))>>),
      Obj(<<Entry(S_rate, Null)>>) }
      \cup { Obj(<<Entry(S_rate, Str(r))>>) : r \in Rates }

InitSchedule ==
    /\ pc = "call"
    /\ arg \in SchedulePayloads
    /\ ret = Pending
    /\ NoPipeline

CallSchedule ==
    /\ pc = "call"
    /\ ret' = Schedule(arg)
    /\ pc' = "returned"
    /\ UNCHANGED <<arg, pipelineVars>>

SpecSchedule == InitSchedule /\ [][CallSchedule]_vars

(* Trigger sequences of at most MaxTriggers entries. *)
MaxTriggers == 2

S_http == <<"h", "t", "t", "p">>

GoodRate == <<"1", " ", "*", " ", "*", " ", "*", " ", "*">>

BadRate == <<"6", "0", " ", "*", " ", "*", " ", "*", " ", "*">>

ScheduleTrigger(payload) == Obj(<<Entry(S_schedule, payload)>>)

TriggerPool ==
    { ScheduleTrigger(Obj(<<Entry(S_rate, Str(GoodRate))>>)),
      ScheduleTrigger(Obj(<<Entry(S_rate, Str(BadRate))>>)),
      ScheduleTrigger(Obj(<<>>)),
      ScheduleTrigger(Null),
      Obj(<<Entry(S_http, Obj(<<>>))>>),
      Obj(<<>>),
      Obj(<<Entry(S_schedule, Obj(<<Entry(S_rate, Str(GoodRate))>>)), Entry(S_http, Obj(<<>>))>>),
      Str(<<"s">>),
      Num(5),
      Null }

SeqsUpTo(S, n) == UNION { [1..k -> S] : k \in 0..n }

InitTriggers ==
    /\ pc = "call"
    /\ arg \in { Arr(items) : items \in SeqsUpTo(TriggerPool, MaxTriggers) }
    /\ ret = Pending
    /\ NoPipeline

CallValidateTriggers ==
    /\ pc = "call"
    /\ ret' = validateTriggers(arg)
    /\ pc' = "returned"
    /\ UNCHANGED <<arg, pipelineVars>>

SpecTriggers == InitTriggers /\ [][CallValidateTriggers]_vars

(* Environment values: absent, scalars, sequences and mappings of at most  *)
(* MaxEnvEntries entries.                                                  *)
MaxEnvEntries == 2

EnvKeys == { <<"K", "E", "Y">>, <<"C", "O", "U", "N", "T">>, <<"A">> }

EnvValues == { Str(<<"v">>), Str(<<>>), Num(5), Null, Obj(<<>>) }

EnvMappings ==
    { Obj([i \in 1..Len(ks) |-> Entry(ks[i], vs[i])]) :
        <<ks, vs>> \in UNION { { ks \in [1..n -> EnvKeys] :
                                   \A i, j \in 1..n : i # j => ks[i] # ks[j] }
                               \X [1..n -> EnvValues] : n \in 0..MaxEnvEntries } }

EnvInputs ==
    { Undefined, Null, Str(<<>>), Str(<<"x">>), Num(0), Num(5) }
      \cup { Arr(items) : items \in SeqsUpTo({ Str(<<"v">>), Num(5) }, 2) }
      \cup EnvMappings

InitEnv ==
    /\ pc = "call"
    /\ arg \in EnvInputs
    /\ ret = Pending
    /\ NoPipeline

CallValidateEnv ==
    /\ pc = "call"
    /\ ret' = validateEnv(arg)
    /\ pc' = "returned"
    /\ UNCHANGED <<arg, pipelineVars>>

SpecEnv == InitEnv /\ [][CallValidateEnv]_vars

---------------------------------------------------------------------------
(* The cron grammar as the specification words it: five fields separated   *)
(* by single spaces; each field is `*`, a decimal number within the        *)
(* field's range, or `*` `/` and such a number.                            *)

FieldRanges ==
    <<[lo |-> 0, hi |-> 59], [lo |-> 0, hi |-> 23], [lo |-> 1, hi |-> 31],
      [lo |-> 1, hi |-> 12], [lo |-> 0, hi |-> 6]>>

IsNumeral(f) == f # <<>> /\ \A i \in 1..Len(f) : \E d \in 1..Len(Digits) : f[i] = Digits[d]

DigitValue(ch) == (CHOOSE d \in 1..Len(Digits) : Digits[d] = ch) - 1

RECURSIVE NumeralValue(_)
NumeralValue(f) ==
    IF f = <<>> THEN 0
    ELSE 10 * NumeralValue(SubSeq(f, 1, Len(f) - 1)) + DigitValue(f[Len(f)])

NoLeadingZero(f) == Len(f) = 1 \/ f[1] # "0"

(* plain: any decimal numeral counts (`05` is five). *)
NumberInRange(f, range, plain) ==
    /\ IsNumeral(f)
    /\ plain \/ NoLeadingZero(f)
    /\ NumeralValue(f) >= range.lo
    /\ NumeralValue(f) <= range.hi

FieldInGrammar(f, range, plain) ==
    \/ f = Star
    \/ NumberInRange(f, range, plain)
    \/ /\ Len(f) > 2
       /\ SubSeq(f, 1, 2) = <<"*", "/">>
       /\ NumberInRange(SubSeq(f, 3, Len(f)), range, plain)

RateInGrammar(rate, plain) ==
    LET fields == Split(rate, " ")
    IN  /\ Len(fields) = Len(FieldRanges)
        /\ \A p \in 1..Len(FieldRanges) : FieldInGrammar(fields[p], FieldRanges[p], plain)

IsNullish(v) == v.t \in {"undefined", "null"}

HasRateInGrammar(payload, plain) ==
    /\ ~IsNullish(payload)
    /\ Get(payload, S_rate).t = "string"
    /\ RateInGrammar(Get(payload, S_rate).s, plain)

MessageContains(message, text) == \E i \in 1..Len(message.args) : message.args[i] = text

C10_WitnessRejected ==
    /\ pc = "returned"
    /\ ret.c = "throw"
    /\ arg = Obj(<<Entry(S_rate, Str(<<"*", " ", "2", "4", " ", "*", " ", "*", " ", "*">>))>>)
    /\ MessageContains(ret.e.message, <<"*", " ", "2", "4", " ", "*", " ", "*", " ", "*">>)

---------------------------------------------------------------------------
(* validateTriggers and validateEnv as the specification words them *)

RECURSIVE Flatten(_)
Flatten(lists) == IF lists = <<>> THEN <<>> ELSE Head(lists) \o Flatten(Tail(lists))

KeyCount(trigger) == IF IsNullish(trigger) THEN 0 ELSE Len(ObjectKeys(trigger).v)

TriggerErrorsAsSpecified(trigger) ==
    IF KeyCount(trigger) # 1 THEN <<TriggerInvalid>>
    ELSE LET kind == ObjectKeys(trigger).v[1]
         IN  IF kind # S_schedule
             THEN <<Msg(TriggerNotSupported(kind).id, <<kind, S_schedule>>)>>
             ELSE IF Schedule(Get(trigger, kind)).c = "throw"
                  THEN <<Schedule(Get(trigger, kind)).e.message>>
                  ELSE <<>>

(* C9, as claimed: validateTriggers returns, for every trigger sequence,   *)
(* the in-order concatenation of at most one error per trigger (zero or    *)
(* several keys: the event-type error; one unregistered key: an error      *)
(* naming it and listing schedule; schedule: the validator's error if it   *)
(* fails), and no invalid trigger stops the triggers after it.             *)
C9_AsClaimed ==
    pc = "returned" =>
        /\ ret.c = "return"
        /\ ret.v = Flatten([i \in 1..Len(arg.items) |-> TriggerErrorsAsSpecified(arg.items[i])])
        /\ Len(ret.v) <= Len(arg.items)

(* The same statement for sequences without a null or undefined entry:     *)
(* it holds there, so C9 fails on those entries alone.                     *)
ValidateTriggersOnKeyedEntries ==
    (pc = "returned" /\ \A i \in 1..Len(arg.items) : ~IsNullish(arg.items[i])) =>
        /\ ret.c = "return"
        /\ ret.v = Flatten([i \in 1..Len(arg.items) |-> TriggerErrorsAsSpecified(arg.items[i])])
        /\ Len(ret.v) <= Len(arg.items)

EnvErrorsAsSpecified(variables) ==
    LET bad == SelectSeq(variables.entries, LAMBDA e : e.v.t # "string")
    IN  [i \in 1..Len(bad) |-> VariableInvalid(bad[i].k)]

(* C8, as claimed: validateEnv returns an empty list for an absent input,  *)
(* raises a fatal error for every input that is not a string-keyed mapping *)
(* (a sequence included), and for a mapping returns one error per entry    *)
(* whose value is not a string, naming its key, in declaration order.      *)
C8_AsClaimed ==
    pc = "returned" =>
        /\ ~Truthy(arg) => ret = Return(<<>>)
        /\ (Truthy(arg) /\ arg.t # "object") => (ret.c = "throw" /\ ret.e.message = EnvNotAMap)
        /\ arg.t = "object" => ret = Return(EnvErrorsAsSpecified(arg))

(* The same statement without the sequences: it holds there, so C8 fails   *)
(* on sequences alone.                                                     *)
ValidateEnvOnNonSequences ==
    (pc = "returned" /\ arg.t # "array") =>
        /\ ~Truthy(arg) => ret = Return(<<>>)
        /\ (Truthy(arg) /\ arg.t # "object") => (ret.c = "throw" /\ ret.e.message = EnvNotAMap)
        /\ arg.t = "object" => ret = Return(EnvErrorsAsSpecified(arg))

---------------------------------------------------------------------------
(* validate() as the specification words it *)

PhaseOrder ==
    <<"validateServicePath", "validateCredentials", "validateNamespace",
      "validateApplications", "checkErrors">>

NoServicePath == ~Truthy(servicePath)

WrongCredentialLength == Len(scwToken) # CredentialLength \/ Len(scwProject) # CredentialLength

(* C2: the phases run in the order service path, credentials, namespace,   *)
(* applications; an absent service path or a token or project id whose     *)
(* length is not 36 ends validate() with one fatal error, before any later *)
(* phase: nothing is aggregated and no events field is defaulted.          *)
C2_PreconditionsShortCircuit ==
    /\ Len(ran) <= Len(PhaseOrder)
    /\ ran = SubSeq(PhaseOrder, 1, Len(ran))
    /\ NoServicePath => pc \in {"validateServicePath", "done"}
    /\ WrongCredentialLength => pc \in {"validateServicePath", "validateCredentials", "done"}
    /\ (pc = "done" /\ (NoServicePath \/ WrongCredentialLength)) =>
           /\ outcome = Rejected(Error("Error", IF NoServicePath THEN NotInServiceDirectory
                                                 ELSE InvalidCredentials))
           /\ ran = IF NoServicePath THEN <<"validateServicePath">>
                    ELSE <<"validateServicePath", "validateCredentials">>
           /\ service = inputService
           /\ errors = Undefined
           /\ namespaceErrors = <<>>
           /\ functionErrors = <<>>

(* C2 witness: validate() has ended on a token one character too long,     *)
(* with an invalid environment variable and a function without events      *)
(* left unvisited.                                                         *)
C2_Witness ==
    /\ pc = "done"
    /\ Truthy(servicePath)
    /\ Len(scwToken) = CredentialLength + 1
    /\ Len(scwProject) = CredentialLength
    /\ Get(inputService.provider.env, <<"C">>) = Num(5)
    /\ inputService.functions =
           Obj(<<Entry(FunctionName(1), FunctionSpec(Str(TwoSegments), Undefined, Undefined))>>)
    /\ outcome = Rejected(Error("Error", InvalidCredentials))

(* C1, as claimed: with the service path set, both credentials 36 long and *)
(* the environment absent or a mapping, validate() succeeds exactly when   *)
(* the namespace and applications phases produced no error, and otherwise  *)
(* fails carrying the validateEnv errors followed by the                   *)
(* validateApplications errors.                                            *)
C1_AsClaimed ==
    (/\ pc = "done"
     /\ Truthy(servicePath)
     /\ Len(scwToken) = CredentialLength
     /\ Len(scwProject) = CredentialLength
     /\ inputService.provider.env.t \in {"undefined", "null", "object"}) =>
        IF namespaceErrors \o functionErrors = <<>>
        THEN outcome = Resolved
        ELSE outcome = Rejected(Arr(namespaceErrors \o functionErrors))

(* events values that validateTriggers can reduce: absent, null, or a      *)
(* sequence without a null or undefined entry.                             *)
ReducibleEvents(x) ==
    LET events == Get(x, S_events)
    IN  \/ IsNullish(events)
        \/ /\ events.t = "array"
           /\ \A i \in 1..Len(events.items) : ~IsNullish(events.items[i])

EntriesOf(x) == IF x.t = "object" THEN x.entries ELSE <<>>

AllEventsReducible(svc, rt) ==
    /\ \A i \in 1..Len(EntriesOf(svc.functions)) :
           \/ IsGolang(svc.functions.entries[i].v, rt)
           \/ ReducibleEvents(svc.functions.entries[i].v)
    /\ \A i \in 1..Len(EntriesOf(ContainersOf(svc))) :
           ReducibleEvents(ContainersOf(svc).entries[i].v)

(* The same statement for the configurations whose events can all be       *)
(* reduced: it holds there, so C1 fails only where validateApplications    *)
(* throws.                                                                 *)
ValidateOutcomeOnReducibleEvents ==
    (/\ pc = "done"
     /\ Truthy(servicePath)
     /\ Len(scwToken) = CredentialLength
     /\ Len(scwProject) = CredentialLength
     /\ inputService.provider.env.t \in {"undefined", "null", "object"}
     /\ AllEventsReducible(inputService, runtime)) =>
        IF namespaceErrors \o functionErrors = <<>>
        THEN outcome = Resolved
        ELSE outcome = Rejected(Arr(namespaceErrors \o functionErrors))

---------------------------------------------------------------------------
(* validateApplications as the specification words it *)

Returned == pc # "validateApplications"

Completed == pc = "checkErrors"

(* C3, as claimed: validateApplications always runs to completion and      *)
(* returns a list of messages; nothing thrown inside a helper leaves it.   *)
C3_AsClaimed ==
    Returned =>
        /\ Completed
        /\ outcome = Pending
        /\ errors.t = "array"

(* The same statement for the configurations whose events can all be       *)
(* reduced: it holds there.                                                *)
ApplicationsCompleteOnReducibleEvents ==
    (Returned /\ AllEventsReducible(inputService, runtime)) =>
        /\ Completed
        /\ outcome = Pending
        /\ errors.t = "array"

Count(list, x) == Cardinality({k \in 1..Len(list) : list[k] = x})

(* The runtime the specification calls effective. *)
EffectiveRuntime(func, rt) ==
    IF Truthy(Get(func, S_runtime)) THEN ToString(Get(func, S_runtime)) ELSE rt

GolangAsSpecified(func, rt) == EffectiveRuntime(func, rt) = S_golang

(* The handler does not resolve against the extension list of runtime of.  *)
HandlerUnresolved(func, of, fsys) ==
    LET handler == Get(func, S_handler)
        extensions == Get(RUNTIMES_EXTENSIONS, of)
    IN  \/ handler.t # "string"
        \/ Len(Split(handler.s, ".")) # 2
        \/ extensions.t # "array"
        \/ \A i \in 1..Len(extensions.items) :
               (Cwd \o <<"/">> \o Split(handler.s, ".")[1] \o <<".">> \o extensions.items[i].s) \notin fsys

(* C4, as claimed: for a non-golang function exactly one handler error,    *)
(* naming the function and its handler, is appended if and only if the     *)
(* handler has not two segments, or the EFFECTIVE runtime has no extension *)
(* list, or no file exists for any extension of the effective runtime.     *)
C4_AsClaimed ==
    Completed =>
        \A i \in 1..Len(EntriesOf(inputService.functions)) :
            LET e == inputService.functions.entries[i]
            IN  ~GolangAsSpecified(e.v, runtime) =>
                    Count(functionErrors, HandlerNotExist(e.k, Get(e.v, S_handler)))
                        = IF HandlerUnresolved(e.v, EffectiveRuntime(e.v, runtime), fs) THEN 1 ELSE 0

(* The same statement with the extension list of the DEFAULT runtime: that *)
(* is what the code consults, override or not.                             *)
HandlerErrorByDefaultRuntime ==
    Completed =>
        \A i \in 1..Len(EntriesOf(inputService.functions)) :
            LET e == inputService.functions.entries[i]
            IN  ~GolangAsSpecified(e.v, runtime) =>
                    Count(functionErrors, HandlerNotExist(e.k, Get(e.v, S_handler)))
                        = IF HandlerUnresolved(e.v, runtime, fs) THEN 1 ELSE 0

MapValues(x, F(_)) ==
    IF x.t = "object" THEN Obj([i \in 1..Len(x.entries) |-> Entry(x.entries[i].k, F(x.entries[i].v))])
    ELSE x

DefaultAbsentEvents(x) ==
    IF Get(x, S_events) = Undefined THEN Obj(Append(x.entries, Entry(S_events, Arr(<<>>)))) ELSE x

DefaultFalsyEvents(x) ==
    IF Get(x, S_events) = Undefined THEN Obj(Append(x.entries, Entry(S_events, Arr(<<>>))))
    ELSE IF Get(x, S_events) = Null
    THEN Obj([i \in 1..Len(x.entries) |->
                 IF x.entries[i].k = S_events THEN Entry(S_events, Arr(<<>>)) ELSE x.entries[i]])
    ELSE x

HasContainers(svc) == svc.custom.t = "object" /\ Get(svc.custom, S_containers).t = "object"

WithContainersMapped(svc, F(_)) ==
    IF HasContainers(svc)
    THEN [svc EXCEPT !.custom =
             Obj([i \in 1..Len(svc.custom.entries) |->
                     IF svc.custom.entries[i].k = S_containers
                     THEN Entry(S_containers, MapValues(svc.custom.entries[i].v, F))
                     ELSE svc.custom.entries[i]])]
    ELSE svc

DefaultUnlessGolang(func) == IF GolangAsSpecified(func, runtime) THEN func ELSE DefaultFalsyEvents(func)

C5_WitnessContainer ==
    /\ Completed
    /\ Get(Get(ContainersOf(inputService), ContainerName(1)), S_events) = Undefined
    /\ Get(Get(ContainersOf(service), ContainerName(1)), S_events) = Arr(<<>>)
    /\ Get(Get(inputService.functions, FunctionName(1)), S_events) = Arr(<<BadSchedule>>)
    /\ Get(Get(service.functions, FunctionName(1)), S_events) = Arr(<<BadSchedule>>)

NothingDefined(svc) ==
    /\ Len(EntriesOf(svc.functions)) = 0
    /\ Len(EntriesOf(ContainersOf(svc))) = 0

(* C6: validateApplications appends the must-define-one error exactly when *)
(* the configuration has no function and no container, and then it is the  *)
(* only error it appends: what it returns is the errors it was given       *)
(* followed by that one message, whatever the default runtime.             *)
C6_MustDefineOne ==
    Returned =>
        /\ NothingDefined(inputService) <=> Includes(functionErrors, MustDefineOne)
        /\ NothingDefined(inputService) =>
               /\ Completed
               /\ functionErrors = <<MustDefineOne>>
               /\ errors = Arr(CurrentErrors(arg) \o <<MustDefineOne>>)

(* C6 witness: validateApplications has completed on a configuration with  *)
(* an empty custom section, no function and an unsupported default runtime.*)
C6_Witness ==
    /\ Completed
    /\ runtime = S_ruby
    /\ inputService.functions = Undefined
    /\ inputService.custom = Obj(<<>>)
    /\ functionErrors = <<MustDefineOne>>

(* A container alone is enough: the error is not appended. *)
C6_WitnessContainerOnly ==
    /\ Completed
    /\ Len(EntriesOf(inputService.functions)) = 0
    /\ Len(EntriesOf(ContainersOf(inputService))) = 1
    /\ ~Includes(functionErrors, MustDefineOne)

HandlerAlternatives == { Undefined, Str(TwoSegments), Str(ThreeSegments) }

WithFunction(svc, i, func) ==
    [svc EXCEPT !.functions =
        Obj([j \in 1..Len(svc.functions.entries) |->
                IF j = i THEN Entry(svc.functions.entries[j].k, func) ELSE svc.functions.entries[j]])]

(* C7: a function whose effective runtime is golang (its override, or the  *)
(* default when it has no override) contributes no error: no handler error *)
(* names it, and validateApplications appends the same errors and ends the *)
(* same way whatever that function's handler and events are.               *)
C7_GolangSkipped ==
    Returned =>
        \A i \in 1..Len(EntriesOf(inputService.functions)) :
            LET e == inputService.functions.entries[i]
            IN  GolangAsSpecified(e.v, runtime) =>
                    /\ \A k \in 1..Len(functionErrors) :
                           functionErrors[k].args = <<>> \/ functionErrors[k].args[1] # e.k
                    /\ \A h \in HandlerAlternatives, ev \in EventsPool :
                           \E r \in { validateApplications(
                                          WithFunction(inputService, i,
                                                       FunctionSpec(h, Get(e.v, S_runtime), ev)),
                                          arg, runtime, fs) } :
                               /\ r.functionErrors = functionErrors
                               /\ r.completion.c = IF Completed THEN "return" ELSE "throw"

(* C7 witness: validateApplications has completed without an error on a    *)
(* golang function that has no handler and a mapping for events, under a   *)
(* node default runtime.                                                   *)
C7_Witness ==
    /\ Completed
    /\ runtime = S_node14
    /\ inputService.functions =
           Obj(<<Entry(FunctionName(1), FunctionSpec(Undefined, Str(S_golang), BadSchedule))>>)
    /\ inputService.custom = Undefined
    /\ functionErrors = <<>>
    /\ service = inputService

(* The default runtime is golang and the function has no override. *)
C7_WitnessDefault ==
    /\ Completed
    /\ runtime = S_golang
    /\ inputService.functions =
           Obj(<<Entry(FunctionName(1), FunctionSpec(Undefined, Undefined, Undefined))>>)
    /\ inputService.custom = Undefined
    /\ functionErrors = <<>>

=============================================================================
